---- MODULE Spec2Model ----
(***************************************************************************)
(* Server-side module loader of vite: ssrLoadModule / instantiateModule    *)
(* (src/unnamed/part_000).  The loader runs on one JavaScript event loop:  *)
(* every action below is the code that runs between two suspension points  *)
(* (await) of one task.                                                    *)
(***************************************************************************)
EXTENDS Integers, Sequences, FiniteSets, TLC

\* ------------------------------------------------------------------ bounds
\* number of ssrLoadModule calls the host (the dev server's user) issues
MaxHostLoads == 2
\* number of import calls one execution of a module body makes
MaxImports == 1
\* number of further import calls of the bodies that import more than once
MoreImports == 1

\* ------------------------------------------------------- identifiers, values
ModuleNames == {"a", "b", "c"}

\* An identifier is a sequence of tokens: '/a' is <<"/", "a">>, './a' is
\* <<".", "a">>, '/@id//a' is <<"/@id/", "/", "a">>.
VALID_ID_PREFIX == "/@id/"

Url(n) == <<"/", n>>

Urls == {Url(n) : n \in ModuleNames}

Wrapped(id) == <<VALID_ID_PREFIX>> \o id

Relative(n) == <<".", n>>

\* shared/utils unwrapId: strips the internal prefix, once
unwrapId(id) ==
  IF Len(id) > 0 /\ id[1] = VALID_ID_PREFIX THEN Tail(id) ELSE id

\* dep[0], the first character of a specifier
FirstChar(dep) ==
  IF dep[1] \in {"/", VALID_ID_PREFIX} THEN "/"
  ELSE IF dep[1] = "." THEN "."
  ELSE "x"

\* path.dirname(url) for the urls of the model, all in the root directory
dirname(url) == SubSeq(url, 1, Len(url) - 1)

\* path.posix.resolve(dir, './n')
posixResolve(dir, dep) == dir \o Tail(dep)

\* JavaScript values: every value is a record with a type field
Undefined == [type |-> "undefined"]

Zero == [type |-> "number", value |-> 0]

TransformResult(url) == [type |-> "TransformResult", url |-> url]

ErrorObject(kind, url, n) == [type |-> "Error", kind |-> kind, url |-> url, n |-> n]

ModuleObject(url, n) == [type |-> "Module", url |-> url, n |-> n]

Null == [type |-> "null"]

Bool(b) == [type |-> "boolean", value |-> b]

Num(n) == [type |-> "number", value |-> n]

Str(x) == [type |-> "string", value |-> x]

\* a plain object / a function, with its enumerable own properties
Obj(props) == [type |-> "object", props |-> props]

Fn(props) == [type |-> "function", props |-> props]

\* truthiness, as tested by `if (mod.ssrError)`, `if (mod.ssrModule)`, `!value`
Truthy(v) ==
  \/ v.type \in {"Error", "Module", "TransformResult", "NativeModule", "Resolved",
                 "object", "function", "Proxy", "symbol"}
  \/ v.type \in {"number", "bigint"} /\ v.value # 0
  \/ v.type = "string" /\ v.value # ""
  \/ v.type = "boolean" /\ v.value

IsNullish(v) == v.type \in {"undefined", "null"}

\* the typeof operator
typeof(v) ==
  IF v.type \in {"null", "object", "Error", "Module", "TransformResult",
                 "NativeModule", "Proxy"}
  THEN "object" ELSE v.type

IsObject(v) == v.type \in {"Error", "Module"}

\* ---------------------------------------------------------------- Map, Set
MapHas(m, k) == k \in DOMAIN m

MapSet(m, k, v) == [x \in DOMAIN m \cup {k} |-> IF x = k THEN v ELSE m[x]]

MapDelete(m, k) == [x \in DOMAIN m \ {k} |-> m[x]]

EmptyMap == [x \in {} |-> x]

\* a JavaScript Set keeps insertion order: a sequence without duplicates
Elems(s) == {s[k] : k \in 1..Len(s)}

SetAdd(s, x) == IF x \in Elems(s) THEN s ELSE Append(s, x)

\* -------------------------------------------------------------- the state
VARIABLES
  mods,                          \* moduleGraph.urlToModuleMap
  pendingModules,                \* Map<string, Promise<SSRModule>>
  pendingModuleDependencyGraph,  \* Map<string, Set<string>>
  importErrors,                  \* WeakMap<Error, {importee}>
  insts,                         \* the calls of instantiateModule, with their promise
  hostCalls,                     \* the host's calls of ssrLoadModule
  frozen,                        \* the objects Object.freeze was applied to
  bodyRuns,                      \* per url, how often initModule was called
  transformCalls,                \* per url, how often transformRequest was called
  reports,                       \* the calls of server.config.logger.error
  imports,                       \* the imports the bodies made: <<url, dep, how>>
  thrown,                        \* the urls whose body has thrown
  nativeImports,                 \* the urls handed to the runtime's import()
  heap,                          \* exports objects a body re-exports between
  interop,                       \* a call of proxyESM: its argument and result
  search                         \* a call of checkModuleDependencyExists

\* the variables of the functions checked on their own
libVars == <<heap, interop, search>>

vars == <<mods, pendingModules, pendingModuleDependencyGraph, importErrors,
          insts, hostCalls, frozen, bodyRuns, transformCalls, reports,
          imports, thrown, nativeImports, heap, interop, search>>

\* The shared state as one value: the operators below are the functions of
\* the source, from a state and arguments to a state (and a result).
Store ==
  [mods |-> mods, pendingModules |-> pendingModules,
   graph |-> pendingModuleDependencyGraph, importErrors |-> importErrors,
   insts |-> insts, frozen |-> frozen, bodyRuns |-> bodyRuns,
   transformCalls |-> transformCalls, reports |-> reports,
   imports |-> imports, thrown |-> thrown, nativeImports |-> nativeImports]

Commit(S) ==
  /\ mods' = S.mods
  /\ pendingModules' = S.pendingModules
  /\ pendingModuleDependencyGraph' = S.graph
  /\ importErrors' = S.importErrors
  /\ insts' = S.insts
  /\ frozen' = S.frozen
  /\ bodyRuns' = S.bodyRuns
  /\ transformCalls' = S.transformCalls
  /\ reports' = S.reports
  /\ imports' = S.imports
  /\ thrown' = S.thrown
  /\ nativeImports' = S.nativeImports

\* what a body's `await __vite_ssr_import__(dep)` waits for: the promise of
\* a load, or a value or an error ssrImport produced itself
\* (dep, how: the import the body is suspended in)
NoWait ==
  [kind |-> "none", id |-> 0, value |-> Undefined, dep |-> <<>>, how |-> ""]

WaitPromise(j, dep) ==
  [kind |-> "promise", id |-> j, value |-> Undefined, dep |-> dep, how |-> ""]

WaitValue(v, dep) ==
  [kind |-> "value", id |-> 0, value |-> v, dep |-> dep, how |-> ""]

WaitError(e, dep) ==
  [kind |-> "error", id |-> 0, value |-> e, dep |-> dep, how |-> ""]

\* the exports objects A and B before their bodies ran; snapshot: what B
\* held when A re-exported it (for the properties)
EmptyHeap == [A |-> EmptyMap, B |-> EmptyMap, snapshot |-> EmptyMap]

NoCall ==
  [called |-> FALSE, input |-> Undefined, result |-> Undefined,
   prop |-> "", read |-> Undefined]

NoSearch ==
  [status |-> "idle", originUrl |-> <<>>, targetUrl |-> <<>>, stack |-> <<>>,
   visited |-> {}, expanded |-> <<>>]

NewModuleNode == [ssrError |-> Undefined, ssrModule |-> Undefined,
                  ssrTransformResult |-> Undefined]

Init ==
  /\ mods = EmptyMap
  /\ pendingModules = EmptyMap
  /\ pendingModuleDependencyGraph = EmptyMap
  /\ importErrors = EmptyMap
  /\ insts = <<>>
  /\ hostCalls = <<>>
  /\ frozen = {}
  /\ bodyRuns = [u \in Urls |-> 0]
  /\ transformCalls = [u \in Urls |-> 0]
  /\ reports = {}
  /\ imports = {}
  /\ thrown = {}
  /\ nativeImports = {}
  /\ heap = EmptyHeap
  /\ interop = NoCall
  /\ search = NoSearch

\* ------------------------------------------------- Dependency Cycle Tracker
addPendingModuleDependency(graph, originUrl, depUrl) ==
  IF MapHas(graph, originUrl)
  THEN MapSet(graph, originUrl, SetAdd(graph[originUrl], depUrl))
  ELSE MapSet(graph, originUrl, <<depUrl>>)

\* the while loop of checkModuleDependencyExists: stack, visited
RECURSIVE checkLoop(_, _, _, _)
checkLoop(graph, stack, visited, targetUrl) ==
  IF Len(stack) = 0 THEN FALSE
  ELSE
    LET currentUrl == stack[Len(stack)]
        popped == SubSeq(stack, 1, Len(stack) - 1)
    IN IF currentUrl = targetUrl THEN TRUE
       ELSE IF currentUrl \notin visited
       THEN LET visited2 == visited \cup {currentUrl}
                dependencies == IF MapHas(graph, currentUrl)
                                THEN graph[currentUrl] ELSE <<>>
                pushed == SelectSeq(dependencies, LAMBDA d : d \notin visited2)
            IN checkLoop(graph, popped \o pushed, visited2, targetUrl)
       ELSE checkLoop(graph, popped, visited, targetUrl)

\* a cycle check that finds nothing
checkModuleDependencyExistsNever(graph, originUrl, targetUrl) == FALSE

checkModuleDependencyExists(graph, originUrl, targetUrl) ==
  checkLoop(graph, <<originUrl>>, {}, targetUrl)

\* ------------------------------------------------------ promises of insts
NewInst(url) ==
  [url |-> url, pc |-> "ensureEntry", state |-> "pending", value |-> Undefined,
   exports |-> Undefined, wait |-> NoWait, nimports |-> 0]

Settled(S, j) == S.insts[j].state # "pending"

resolvePromise(S, i, v) ==
  [S EXCEPT !.insts[i] = [NewInst(@.url) EXCEPT
       !.pc = "returned", !.state = "fulfilled", !.value = v]]

rejectPromise(S, i, e) ==
  [S EXCEPT !.insts[i] = [NewInst(@.url) EXCEPT
       !.pc = "returned", !.state = "rejected", !.value = e]]

\* ------------------------------------------------------ Single-Flight Loader
\* instantiateModule up to its first await (moduleGraph.ensureEntryFromUrl)
instantiateModule(S, url) ==
  [S |-> [S EXCEPT !.insts = Append(@, NewInst(url))],
   promise |-> Len(S.insts) + 1]

\* ssrLoadModule without the lookup of lines 57-60
ssrLoadModuleNoLookup(S, rawUrl) ==
  LET url == unwrapId(rawUrl)
      r == instantiateModule(S, url)
  IN [S |-> [r.S EXCEPT !.pendingModules = MapSet(@, url, r.promise)],
      promise |-> r.promise]

\* ssrLoadModule with the pending table keyed on the identifier as spelled
ssrLoadModuleRawKey(S, rawUrl) ==
  LET url == unwrapId(rawUrl) IN
  IF MapHas(S.pendingModules, rawUrl)
  THEN [S |-> S, promise |-> S.pendingModules[rawUrl]]
  ELSE LET r == instantiateModule(S, url) IN
       [S |-> [r.S EXCEPT !.pendingModules = MapSet(@, rawUrl, r.promise)],
        promise |-> r.promise]

\* ssrLoadModule, whole: it has no await of its own.  The removal of the
\* pending entry is the promise reaction pendingModulesDelete.
ssrLoadModule(S, rawUrl) ==
  LET url == unwrapId(rawUrl) IN
  IF MapHas(S.pendingModules, url)
  THEN [S |-> S, promise |-> S.pendingModules[url]]
  ELSE LET r == instantiateModule(S, url) IN
       [S |-> [r.S EXCEPT !.pendingModules = MapSet(@, url, r.promise)],
        promise |-> r.promise]

\* --------------------------------------------------------------- nodeImport
\* Specifiers of externalized dependencies: a built-in, a package the
\* resolver finds, one it does not find, and one it finds whose evaluation
\* by the runtime fails.
BuiltinIds == {<<"node:fs">>}

ResolvableIds == {<<"pkg">>, <<"broken">>}

MissingIds == {<<"missing">>}

ExternalIds == BuiltinIds \cup ResolvableIds \cup MissingIds

\* tryNodeResolve(id, importer, ...): the resolved file, or undefined
tryNodeResolve(id, importer) ==
  IF id \in ResolvableIds THEN [type |-> "Resolved", id |-> <<"file:">> \o id]
  ELSE Undefined

NativeModule(url) == [type |-> "NativeModule", url |-> url]

\* lines 325-329: the error of a failed resolution
ModuleNotFoundError(id, importer, n) ==
  [type |-> "Error", kind |-> "ERR_MODULE_NOT_FOUND", url |-> importer, n |-> n,
   id |-> id]

\* `await import(url)` of the runtime
nativeImport(S, url, n) ==
  LET S1 == [S EXCEPT !.nativeImports = @ \cup {url}] IN
  IF url = <<"file:", "broken">>
  THEN [S |-> S1, threw |-> TRUE, value |-> ErrorObject("native", url, n)]
  ELSE [S |-> S1, threw |-> FALSE, value |-> NativeModule(url)]

\* nodeImport without the test of the resolver's answer
nodeImportUnchecked(S, id, importer, n) ==
  nativeImport(S, IF id \in BuiltinIds THEN id ELSE <<"file:">> \o id, n)

\* nodeImport, whole (resolveOptions.legacyProxySsrExternalModules unset):
\* the module, or what it throws
nodeImport(S, id, importer, n) ==
  IF id \in BuiltinIds THEN nativeImport(S, id, n)
  ELSE LET resolved == tryNodeResolve(id, importer) IN
       IF ~Truthy(resolved)
       THEN [S |-> S, threw |-> TRUE,
             value |-> ModuleNotFoundError(id, importer, n)]
       ELSE nativeImport(S, resolved.id, n)

\* ------------------------------------------------------------- ssrImport
\* an import that goes to the Single-Flight Loader without its edge
ssrImportLateEdge(S, i, rawDep, isDynamicImport) ==
  LET url == S.insts[i].url
      dep == unwrapId(rawDep)
      S1 == IF ~isDynamicImport
            THEN [S EXCEPT !.graph = addPendingModuleDependency(@, url, dep)]
            ELSE S
  IN IF ~isDynamicImport /\ checkModuleDependencyExists(S1.graph, dep, url)
     THEN [S |-> S1, result |-> WaitValue(S1.mods[dep].ssrModule, dep)]
     ELSE LET r == ssrLoadModule(S, dep) IN
          [S |-> r.S, result |-> WaitPromise(r.promise, dep)]

\* an import that registers an edge for the specifier of a package too
ssrImportExternalEdge(S, i, rawDep, isDynamicImport) ==
  LET url == S.insts[i].url
      dep == unwrapId(rawDep)
      S1 == IF ~isDynamicImport
            THEN [S EXCEPT !.graph = addPendingModuleDependency(@, url, dep)]
            ELSE S
  IN IF FirstChar(rawDep) # "." /\ FirstChar(rawDep) # "/"
     THEN LET r == nodeImport(S1, rawDep, url, S.insts[i].nimports) IN
          IF r.threw
          THEN [S |-> [r.S EXCEPT !.importErrors = MapSet(@, r.value, rawDep)],
                result |-> WaitError(r.value, rawDep)]
          ELSE [S |-> r.S, result |-> WaitValue(r.value, rawDep)]
     ELSE IF ~isDynamicImport /\ checkModuleDependencyExists(S1.graph, dep, url)
     THEN LET depSsrModule == IF MapHas(S1.mods, dep)
                              THEN S1.mods[dep].ssrModule ELSE Undefined
              err == ErrorObject("cycle", url, S1.insts[i].nimports)
          IN IF ~Truthy(depSsrModule)
             THEN [S |-> [S1 EXCEPT !.importErrors = MapSet(@, err, dep)],
                   result |-> WaitError(err, dep)]
             ELSE [S |-> S1, result |-> WaitValue(depSsrModule, dep)]
     ELSE LET r == ssrLoadModule(S1, dep) IN
          [S |-> r.S, result |-> WaitPromise(r.promise, dep)]

\* an import that always goes to the Single-Flight Loader
ssrImportNoShortCircuit(S, i, rawDep, isDynamicImport) ==
  LET url == S.insts[i].url
      dep == unwrapId(rawDep)
      S1 == IF ~isDynamicImport
            THEN [S EXCEPT !.graph = addPendingModuleDependency(@, url, dep)]
            ELSE S
      r == ssrLoadModule(S1, dep)
  IN [S |-> r.S, result |-> WaitPromise(r.promise, dep)]

\* The result is what the promise of the async function ssrImport is bound
\* to: the promise of a load, a value, or an error.  `return ssrLoadModule()`
\* is not awaited inside the try block, so the catch clause sees only what
\* is thrown before it: here the error of an uninitialized cycle.
ssrImport(S, i, rawDep, isDynamicImport) ==
  LET url == S.insts[i].url
      dep == unwrapId(rawDep)
      S1 == IF ~isDynamicImport
            THEN [S EXCEPT !.graph = addPendingModuleDependency(@, url, dep)]
            ELSE S
  IN IF FirstChar(rawDep) # "." /\ FirstChar(rawDep) # "/"
     THEN LET r == nodeImport(S, rawDep, url, S.insts[i].nimports) IN
          IF r.threw
          THEN [S |-> [r.S EXCEPT !.importErrors = MapSet(@, r.value, rawDep)],
                result |-> WaitError(r.value, rawDep)]
          ELSE [S |-> r.S, result |-> WaitValue(r.value, rawDep)]
     ELSE IF ~isDynamicImport /\ checkModuleDependencyExists(S1.graph, dep, url)
     THEN LET depSsrModule == IF MapHas(S1.mods, dep)
                              THEN S1.mods[dep].ssrModule ELSE Undefined
              err == ErrorObject("cycle", url, S1.insts[i].nimports)
          IN IF ~Truthy(depSsrModule)
             THEN [S |-> [S1 EXCEPT !.importErrors = MapSet(@, err, dep)],
                   result |-> WaitError(err, dep)]
             ELSE [S |-> S1, result |-> WaitValue(depSsrModule, dep)]
     ELSE LET r == ssrLoadModule(S1, dep) IN
          [S |-> r.S, result |-> WaitPromise(r.promise, dep)]

\* a dynamic import treated as a static one
ssrDynamicImportAsStatic(S, i, rawDep) ==
  LET url == S.insts[i].url
      dep == IF rawDep[1] = "." THEN posixResolve(dirname(url), rawDep)
             ELSE rawDep
  IN ssrImport(S, i, dep, FALSE)

ssrDynamicImport(S, i, rawDep) ==
  LET url == S.insts[i].url
      dep == IF rawDep[1] = "." THEN posixResolve(dirname(url), rawDep)
             ELSE rawDep
  IN ssrImport(S, i, dep, TRUE)

\* --------------------------------------------- Module Instantiation Executor
\* an exports container that is not attached to the record
createSsrModuleDetached(S, i) ==
  LET url == S.insts[i].url
      ssrModule == ModuleObject(url, S.bodyRuns[url] + 1)
  IN [S EXCEPT !.insts[i].exports = ssrModule,
               !.insts[i].pc = "initModule",
               !.bodyRuns[url] = @ + 1]

\* lines 98-105: the exports container, attached before the body runs
createSsrModule(S, i) ==
  LET url == S.insts[i].url
      ssrModule == ModuleObject(url, S.bodyRuns[url] + 1)
  IN [S EXCEPT !.mods[url].ssrModule = ssrModule,
               !.insts[i].exports = ssrModule,
               !.insts[i].pc = "initModule",
               !.bodyRuns[url] = @ + 1]

\* the body returned, and a frozen copy of the exports is what is returned
finishModuleCopy(S, i) ==
  LET url == S.insts[i].url
      copy == ModuleObject(url, S.bodyRuns[url] + 1)
      S1 == [S EXCEPT !.graph = MapDelete(@, url),
                      !.frozen = @ \cup {copy}]
  IN resolvePromise(S1, i, copy)

\* lines 258-262: the body returned
finishModule(S, i) ==
  LET url == S.insts[i].url
      ssrModule == S.insts[i].exports
      S1 == [S EXCEPT !.graph = MapDelete(@, url),
                      !.frozen = @ \cup {ssrModule}]
  IN resolvePromise(S1, i, ssrModule)

\* a failure of the body that leaves the edges of the module in the set
catchBlockKeepsEdges(S, i, e) ==
  LET url == S.insts[i].url
      S1 == [S EXCEPT !.mods[url].ssrError = e, !.thrown = @ \cup {url}]
      errorData == IF MapHas(S.importErrors, e) THEN S.importErrors[e]
                   ELSE Undefined
  IN IF IsNullish(e)
     THEN rejectPromise(S1, i, ErrorObject("TypeError", url, S.bodyRuns[url]))
     ELSE rejectPromise(
            [S1 EXCEPT !.reports = @ \cup {[url |-> url, importee |-> errorData,
                                            error |-> e]}],
            i, e)

\* lines 234-260: the body threw e
catchBlock(S, i, e) ==
  LET url == S.insts[i].url
      S1 == [S EXCEPT !.mods[url].ssrError = e, !.thrown = @ \cup {url}]
      errorData == IF MapHas(S.importErrors, e) THEN S.importErrors[e]
                   ELSE Undefined
  IN IF IsNullish(e)
     THEN \* e.stack throws a TypeError: nothing is logged
          rejectPromise([S1 EXCEPT !.graph = MapDelete(@, url)], i,
                        ErrorObject("TypeError", url, S.bodyRuns[url]))
     ELSE rejectPromise(
            [S1 EXCEPT !.graph = MapDelete(@, url),
                       !.reports = @ \cup {[url |-> url, importee |-> errorData,
                                            error |-> e]}],
            i, e)

\* -------------------------------------------------------- the module bodies
\* The code of a module is an input of the loader.  A body is run in
\* segments: the operations it performs between two of its awaits.  A
\* segment is a sequence of dynamic imports whose promise the body does not
\* await, ended by an awaited import, a return or a throw.
ImportOp(rawDep, isDynamic, awaited) ==
  [op |-> "import", dep |-> rawDep, dynamic |-> isDynamic, awaited |-> awaited,
   value |-> Undefined]

ReturnOp ==
  [op |-> "return", dep |-> <<>>, dynamic |-> FALSE, awaited |-> FALSE,
   value |-> Undefined]

ThrowOp(v) ==
  [op |-> "throw", dep |-> <<>>, dynamic |-> FALSE, awaited |-> FALSE,
   value |-> v]

\* what a body may throw: an Error of its own, or any other value
ThrownValues(url, n) == {ErrorObject("body", url, n), Zero, Undefined}

\* K: the operations bodies are made of, [static, dynamic, detached: sets of
\* specifiers; throws: whether bodies may throw; external: specifiers of
\* packages, imported statically; more: import calls beyond MaxImports]
Segments(K, S, i) ==
  LET url == S.insts[i].url
      left == MaxImports + K.more - S.insts[i].nimports
      detachedOps == {ImportOp(d, TRUE, FALSE) : d \in K.detached}
      finals(m) ==
        {ReturnOp}
        \cup (IF K.throws
              THEN {ThrowOp(v) : v \in ThrownValues(url, S.bodyRuns[url])}
              ELSE {})
        \cup (IF m < left
              THEN {ImportOp(d, FALSE, TRUE) : d \in K.static \cup K.external}
                   \cup {ImportOp(d, TRUE, TRUE) : d \in K.dynamic}
              ELSE {})
  IN UNION {{f \o <<o>> : f \in [1..m -> detachedOps], o \in finals(m)} :
            m \in 0..left}

\* how a body imports: `await __vite_ssr_import__(dep)` (a static import),
\* `await __vite_ssr_dynamic_import__(dep)`, or the latter without await
How(o) == IF ~o.dynamic THEN "static"
          ELSE IF o.awaited THEN "await import" ELSE "import"

\* the module a specifier of a body of url names (for the properties)
Target(url, o) ==
  unwrapId(IF o.dynamic /\ o.dep[1] = "."
           THEN posixResolve(dirname(url), o.dep) ELSE o.dep)

\* initModule from one await of the body to the next (lines 226-233), and
\* what follows the body's end (lines 234-262)
RECURSIVE runSegment(_, _, _)
runSegment(S, i, seg) ==
  LET o == Head(seg) IN
  IF o.op = "return" THEN finishModule(S, i)
  ELSE IF o.op = "throw" THEN catchBlock(S, i, o.value)
  ELSE LET r == IF o.dynamic THEN ssrDynamicImport(S, i, o.dep)
                ELSE ssrImport(S, i, o.dep, FALSE)
           S1 == [r.S EXCEPT
                    !.insts[i].nimports = @ + 1,
                    !.imports = @ \cup {<<S.insts[i].url,
                                           Target(S.insts[i].url, o), How(o)>>}]
       IN IF o.awaited
          THEN [S1 EXCEPT !.insts[i].wait = [r.result EXCEPT !.how = How(o)]]
          ELSE runSegment(S1, i, Tail(seg))

\* moduleGraph.ensureEntryFromUrl(url, true)
ensureEntryFromUrl(S, url) ==
  IF MapHas(S.mods, url) THEN S
  ELSE [S EXCEPT !.mods = MapSet(@, url, NewModuleNode)]

\* an entry that does not return the exports the record holds
instantiateModuleEntryNoReturn(mod) ==
  IF Truthy(mod.ssrError) THEN "throw"
  ELSE IF Truthy(mod.ssrTransformResult) THEN "run"
  ELSE "transformRequest"

\* lines 83-92: what instantiateModule does with the record it got
instantiateModuleEntry(mod) ==
  IF Truthy(mod.ssrError) THEN "throw"
  ELSE IF Truthy(mod.ssrModule) THEN "return"
  ELSE IF Truthy(mod.ssrTransformResult) THEN "run"
  ELSE "transformRequest"

\* ----------------------------------------------------------------- actions
\* the host calls server.ssrLoadModule(rawUrl)
HostLoad(rawUrl) ==
  /\ Len(hostCalls) < MaxHostLoads
  /\ LET r == ssrLoadModule(Store, rawUrl)
         inFlight == {g \in DOMAIN hostCalls :
                        insts[hostCalls[g].promise].state = "pending"}
     IN
     /\ Commit(r.S)
     /\ hostCalls' = Append(
          [g \in DOMAIN hostCalls |->
             IF g \in inFlight THEN [hostCalls[g] EXCEPT !.alone = FALSE]
             ELSE hostCalls[g]],
          [raw |-> rawUrl, url |-> unwrapId(rawUrl), promise |-> r.promise,
           \* for the properties: the earlier calls for the same module that
           \* had not settled when this one was issued
           concurrent |-> {g \in inFlight : hostCalls[g].url = unwrapId(rawUrl)},
           \* whether no other host call was in flight together with this one
           alone |-> inFlight = {}])
  /\ UNCHANGED libVars

\* a removal of the pending entry that runs for fulfilled loads only
pendingModulesDeleteOnFulfil(url) ==
  /\ MapHas(pendingModules, url)
  /\ insts[pendingModules[url]].state = "fulfilled"
  /\ pendingModules' = MapDelete(pendingModules, url)
  /\ UNCHANGED <<mods, pendingModuleDependencyGraph, importErrors, insts,
                 hostCalls, frozen, bodyRuns, transformCalls, reports,
                 imports, thrown, nativeImports, libVars>>

\* modulePromise.catch(...).finally(() => pendingModules.delete(url))
pendingModulesDelete(url) ==
  /\ MapHas(pendingModules, url)
  /\ insts[pendingModules[url]].state # "pending"
  /\ pendingModules' = MapDelete(pendingModules, url)
  /\ UNCHANGED <<mods, pendingModuleDependencyGraph, importErrors, insts,
                 hostCalls, frozen, bodyRuns, transformCalls, reports,
                 imports, thrown, nativeImports, libVars>>

\* instantiateModule resumes from `await moduleGraph.ensureEntryFromUrl`
Begin(i, K) ==
  /\ i \in DOMAIN insts
  /\ insts[i].pc = "ensureEntry"
  /\ LET url == insts[i].url
         S1 == ensureEntryFromUrl(Store, url)
         mod == S1.mods[url]
         entry == instantiateModuleEntry(mod)
     IN CASE entry = "throw" -> Commit(rejectPromise(S1, i, mod.ssrError))
          [] entry = "return" -> Commit(resolvePromise(S1, i, mod.ssrModule))
          [] entry = "run" ->
               LET S2 == createSsrModule(S1, i) IN
               \E seg \in Segments(K, S2, i) : Commit(runSegment(S2, i, seg))
          [] OTHER ->
               Commit([S1 EXCEPT !.insts[i].pc = "transformRequest",
                                 !.transformCalls[url] = @ + 1])
  /\ UNCHANGED <<hostCalls, libVars>>

\* an unavailable transform that is stored on the record like a failure of
\* the body
TransformUnavailableCached(i) ==
  /\ i \in DOMAIN insts
  /\ insts[i].pc = "transformRequest"
  /\ LET url == insts[i].url
         e == ErrorObject("load", url, transformCalls[url])
     IN Commit(rejectPromise([Store EXCEPT !.mods[url].ssrError = e], i, e))
  /\ UNCHANGED <<hostCalls, libVars>>

\* `await transformRequest(url, server, { ssr: true })` resumes without a
\* result: line 95
TransformUnavailable(i) ==
  /\ i \in DOMAIN insts
  /\ insts[i].pc = "transformRequest"
  /\ LET url == insts[i].url IN
     Commit(rejectPromise(Store, i,
                          ErrorObject("load", url, transformCalls[url])))
  /\ UNCHANGED <<hostCalls, libVars>>

\* `await transformRequest(...)` resumes with a result, which the transform
\* collaborator has cached on the record; the body starts
TransformDone(i, K) ==
  /\ i \in DOMAIN insts
  /\ insts[i].pc = "transformRequest"
  /\ LET url == insts[i].url
         S1 == [Store EXCEPT !.mods[url].ssrTransformResult = TransformResult(url)]
         S2 == createSsrModule(S1, i)
     IN \E seg \in Segments(K, S2, i) : Commit(runSegment(S2, i, seg))
  /\ UNCHANGED <<hostCalls, libVars>>

\* the body resumes from `await __vite_ssr_import__(dep)`
Resume(i, K) ==
  /\ i \in DOMAIN insts
  /\ insts[i].pc = "initModule"
  /\ LET w == insts[i].wait
         settled == \/ w.kind \in {"value", "error"}
                    \/ w.kind = "promise" /\ insts[w.id].state # "pending"
         failed == \/ w.kind = "error"
                   \/ w.kind = "promise" /\ insts[w.id].state = "rejected"
         v == IF w.kind = "promise" THEN insts[w.id].value ELSE w.value
     IN /\ settled
        /\ IF failed THEN Commit(catchBlock(Store, i, v))
           ELSE LET S1 == [Store EXCEPT !.insts[i].wait = NoWait]
                IN \E seg \in Segments(K, S1, i) : Commit(runSegment(S1, i, seg))
  /\ UNCHANGED <<hostCalls, libVars>>

\* ----------------------------------------------------------- specifications
AllBodies ==
  [static |-> Urls \cup {Wrapped(u) : u \in Urls},
   dynamic |-> Urls \cup {Relative(n) : n \in ModuleNames},
   detached |-> {}, throws |-> TRUE, external |-> {}, more |-> 0]

HostIds == Urls

Next ==
  \/ \E rawUrl \in HostIds : HostLoad(rawUrl)
  \/ \E u \in Urls : pendingModulesDelete(u)
  \/ \E i \in DOMAIN insts : Begin(i, AllBodies)
  \/ \E i \in DOMAIN insts : TransformUnavailable(i)
  \/ \E i \in DOMAIN insts : TransformDone(i, AllBodies)
  \/ \E i \in DOMAIN insts : Resume(i, AllBodies)

Spec == Init /\ [][Next]_vars

\* Bodies made of static imports only.  The event loop runs every task that
\* is ready, so the loader's steps are weakly fair; the host may stop
\* issuing loads at any time.
StaticBodies ==
  [static |-> Urls, dynamic |-> {}, detached |-> {}, throws |-> TRUE, external |-> {}, more |-> 0]

LoaderStatic ==
  \/ \E u \in Urls : pendingModulesDelete(u)
  \/ \E i \in DOMAIN insts : Begin(i, StaticBodies)
  \/ \E i \in DOMAIN insts : TransformUnavailable(i)
  \/ \E i \in DOMAIN insts : TransformDone(i, StaticBodies)
  \/ \E i \in DOMAIN insts : Resume(i, StaticBodies)

NextStatic ==
  \/ \E rawUrl \in HostIds : HostLoad(rawUrl)
  \/ LoaderStatic

SpecStatic == Init /\ [][NextStatic]_vars /\ WF_vars(LoaderStatic)

\* Bodies that import statically and dynamically, awaiting the dynamic
\* import or not.
DynamicBodies ==
  [static |-> Urls, dynamic |-> Urls \cup {Relative(n) : n \in ModuleNames},
   detached |-> Urls, throws |-> FALSE, external |-> {}, more |-> 0]

LoaderDynamic ==
  \/ \E u \in Urls : pendingModulesDelete(u)
  \/ \E i \in DOMAIN insts : Begin(i, DynamicBodies)
  \/ \E i \in DOMAIN insts : TransformUnavailable(i)
  \/ \E i \in DOMAIN insts : TransformDone(i, DynamicBodies)
  \/ \E i \in DOMAIN insts : Resume(i, DynamicBodies)

NextDynamic ==
  \/ \E rawUrl \in HostIds : HostLoad(rawUrl)
  \/ LoaderDynamic

SpecDynamic == Init /\ [][NextDynamic]_vars /\ WF_vars(LoaderDynamic)

\* The host and the bodies spell identifiers with and without the prefix
\* that unwrapId strips; every static import is spelled with it.
IdBodies ==
  [static |-> {Wrapped(u) : u \in Urls}, dynamic |-> {}, detached |-> {},
   throws |-> FALSE, external |-> {}, more |-> 0]

HostSpellings == Urls \cup {Wrapped(u) : u \in Urls}

NextIds ==
  \/ \E rawUrl \in HostSpellings : HostLoad(rawUrl)
  \/ \E u \in Urls : pendingModulesDelete(u)
  \/ \E i \in DOMAIN insts : Begin(i, IdBodies)
  \/ \E i \in DOMAIN insts : TransformUnavailable(i)
  \/ \E i \in DOMAIN insts : TransformDone(i, IdBodies)
  \/ \E i \in DOMAIN insts : Resume(i, IdBodies)

SpecIds == Init /\ [][NextIds]_vars

\* Bodies that import modules of the project and externalized packages.
ExternalBodies ==
  [static |-> Urls, dynamic |-> ExternalIds, detached |-> {}, throws |-> FALSE,
   external |-> ExternalIds, more |-> 0]

NextExternal ==
  \/ \E rawUrl \in HostIds : HostLoad(rawUrl)
  \/ \E u \in Urls : pendingModulesDelete(u)
  \/ \E i \in DOMAIN insts : Begin(i, ExternalBodies)
  \/ \E i \in DOMAIN insts : TransformUnavailable(i)
  \/ \E i \in DOMAIN insts : TransformDone(i, ExternalBodies)
  \/ \E i \in DOMAIN insts : Resume(i, ExternalBodies)

SpecExternal == Init /\ [][NextExternal]_vars

\* Bodies that make more than one static import and do not throw.
WideBodies ==
  [static |-> Urls, dynamic |-> {}, detached |-> {}, throws |-> FALSE,
   external |-> {}, more |-> MoreImports]

NextWide ==
  \/ \E rawUrl \in HostIds : HostLoad(rawUrl)
  \/ \E u \in Urls : pendingModulesDelete(u)
  \/ \E i \in DOMAIN insts : Begin(i, WideBodies)
  \/ \E i \in DOMAIN insts : TransformUnavailable(i)
  \/ \E i \in DOMAIN insts : TransformDone(i, WideBodies)
  \/ \E i \in DOMAIN insts : Resume(i, WideBodies)

SpecWide == Init /\ [][NextWide]_vars

\* ------------------------------------------------- re-export and interop
\* A property of an exports object: a value, or a getter reading a property
\* of another object.
DataProperty(v) == [kind |-> "data", value |-> v]

GetterProperty(sourceModule, key) ==
  [kind |-> "getter", source |-> sourceModule, key |-> key]

\* a read of obj[key]
RECURSIVE Get(_, _, _)
Get(h, obj, key) ==
  IF key \notin DOMAIN h[obj] THEN Undefined
  ELSE LET d == h[obj][key] IN
       IF d.kind = "data" THEN d.value ELSE Get(h, d.source, d.key)

NotReexported == {"default", "__esModule"}

\* a re-export that copies the values
ssrExportAllCopy(h, ssrModule, sourceModule) ==
  LET keys == DOMAIN h[sourceModule] \ NotReexported IN
  [h EXCEPT ![ssrModule] =
     [key \in DOMAIN h[ssrModule] \cup keys |->
        IF key \in keys THEN DataProperty(Get(h, sourceModule, key))
        ELSE h[ssrModule][key]]]

\* ssrExportAll of the instantiation whose exports object is ssrModule
ssrExportAll(h, ssrModule, sourceModule) ==
  LET keys == DOMAIN h[sourceModule] \ NotReexported IN
  [h EXCEPT ![ssrModule] =
     [key \in DOMAIN h[ssrModule] \cup keys |->
        IF key \in keys THEN GetterProperty(sourceModule, key)
        ELSE h[ssrModule][key]]]

ExportKeys == {"a", "b", "default", "__esModule"}

ExportValues == {Num(1), Num(2)}

\* the body of B defines an export, or gives an exported binding a new value
DefineExport(key, v) ==
  /\ heap' = [heap EXCEPT !.B = MapSet(@, key, DataProperty(v))]
  /\ UNCHANGED <<mods, pendingModules, pendingModuleDependencyGraph,
                 importErrors, insts, hostCalls, frozen, bodyRuns,
                 transformCalls, reports, imports, thrown, nativeImports,
                 interop, search>>

\* the body of A runs `__vite_ssr_exportAll__(B)`
ExportAll ==
  /\ heap' = [ssrExportAll(heap, "A", "B") EXCEPT
                !.snapshot = [key \in DOMAIN heap.B |-> Get(heap, "B", key)]]
  /\ UNCHANGED <<mods, pendingModules, pendingModuleDependencyGraph,
                 importErrors, insts, hostCalls, frozen, bodyRuns,
                 transformCalls, reports, imports, thrown, nativeImports,
                 interop, search>>

\* isPrimitive without the test for falsy values
isPrimitiveByType(value) ==
  typeof(value) # "object" /\ typeof(value) # "function"

isPrimitive(value) ==
  ~Truthy(value) \/ (typeof(value) # "object" /\ typeof(value) # "function")

\* `key in o`: a TypeError when o is not an object
CanHaveProps(o) == o.type \in {"object", "function"}

HasProp(o, key) == key \in DOMAIN o.props

\* the Proxy proxyESM returns: its target and the default export it answers
ProxyObject(mod, defaultExport) ==
  [type |-> "Proxy", target |-> mod, defaultExport |-> defaultExport]

\* a wrapper that never looks into the default export
proxyObjectNoUnwrap(mod) ==
  ProxyObject(mod, IF HasProp(mod, "default") THEN mod.props["default"]
                   ELSE mod)

\* lines 359-373, for an object or function mod
proxyObject(mod) ==
  LET defaultExport == IF HasProp(mod, "default") THEN mod.props["default"]
                       ELSE mod
      unwrap == ~isPrimitive(defaultExport) /\ HasProp(defaultExport, "__esModule")
  IN IF unwrap
     THEN ProxyObject(defaultExport,
                      IF HasProp(defaultExport, "default")
                      THEN defaultExport.props["default"] ELSE defaultExport)
     ELSE ProxyObject(mod, defaultExport)

proxyESM(mod) ==
  IF isPrimitive(mod) THEN Obj("default" :> mod)
  ELSE IF ~CanHaveProps(mod)
  THEN ErrorObject("TypeError", <<>>, 0)     \* `'default' in mod` throws
  ELSE proxyObject(mod)

PrimitiveValues ==
  {Undefined, Null, Bool(FALSE), Bool(TRUE), Zero, Num(1), Str(""), Str("x"),
   [type |-> "bigint", value |-> 0], [type |-> "symbol"]}

\* o[key] of a value without inherited properties of that name
GetProp(o, key) ==
  IF CanHaveProps(o) /\ HasProp(o, key) THEN o.props[key] ELSE Undefined

\* lines 368-371: the get trap of the Proxy
ProxyGet(proxy, prop) ==
  IF prop = "default" THEN proxy.defaultExport
  ELSE LET own == GetProp(proxy.target, prop) IN
       IF ~IsNullish(own) THEN own
       ELSE IF IsNullish(proxy.defaultExport) THEN Undefined
       ELSE GetProp(proxy.defaultExport, prop)

Marked(props) == ("__esModule" :> Bool(TRUE)) @@ props

ObjectValues ==
  {Obj(EmptyMap), Obj("default" :> Num(1)), Obj("default" :> Undefined),
   Obj("default" :> Null),
   Obj("__esModule" :> Bool(TRUE)),
   Obj(Marked("a" :> Num(1))),
   Obj("a" :> Num(1)),
   Obj("default" :> Obj(Marked("default" :> Num(2)))),
   Obj("default" :> Obj(Marked("a" :> Num(1)))),
   Obj("default" :> Obj("__esModule" :> Bool(FALSE) @@ "default" :> Num(2))),
   Obj("default" :> Obj(Marked("default" :> Obj(Marked("default" :> Num(3)))))),
   Obj("a" :> Num(1) @@ "default" :> Obj("a" :> Num(2) @@ "b" :> Num(3))),
   Obj("a" :> Undefined @@ "default" :> Obj("a" :> Num(1))),
   Obj("a" :> Null @@ "default" :> Obj("a" :> Num(1))),
   Obj("a" :> Num(1) @@ "default" :> Obj(Marked("a" :> Num(2)))),
   Fn(EmptyMap), Fn("default" :> Fn(Marked("default" :> Num(2))))}

ReadProps == {"default", "a", "b", "__esModule"}

\* nodeImport hands the module the runtime imported to proxyESM
CallProxyESM(mod) ==
  /\ interop' = [called |-> TRUE, input |-> mod, result |-> proxyESM(mod),
                 prop |-> "", read |-> Undefined]
  /\ UNCHANGED <<mods, pendingModules, pendingModuleDependencyGraph,
                 importErrors, insts, hostCalls, frozen, bodyRuns,
                 transformCalls, reports, imports, thrown, nativeImports,
                 heap, search>>

\* the importer reads a property of what proxyESM returned
ReadProxy(prop) ==
  /\ interop.called
  /\ interop.result.type \in {"Proxy", "object"}
  /\ interop' = [interop EXCEPT
                   !.prop = prop,
                   !.read = IF interop.result.type = "Proxy"
                            THEN ProxyGet(interop.result, prop)
                            ELSE GetProp(interop.result, prop)]
  /\ UNCHANGED <<mods, pendingModules, pendingModuleDependencyGraph,
                 importErrors, insts, hostCalls, frozen, bodyRuns,
                 transformCalls, reports, imports, thrown, nativeImports,
                 heap, search>>

NextInterop ==
  \/ \E key \in ExportKeys, v \in ExportValues : DefineExport(key, v)
  \/ ExportAll
  \/ \E mod \in PrimitiveValues \cup ObjectValues : CallProxyESM(mod)
  \/ \E prop \in ReadProps : ReadProxy(prop)

SpecInterop == Init /\ [][NextInterop]_vars

\* ------------------------------------- checkModuleDependencyExists, stepwise
\* The call as a loop: search holds originUrl, targetUrl, stack and visited;
\* expanded lists the identifiers whose dependencies were pushed (for the
\* properties).  One step is one iteration of `while (stack.length)`.
NewSearch(originUrl, targetUrl) ==
  [status |-> "running", originUrl |-> originUrl, targetUrl |-> targetUrl,
   stack |-> <<originUrl>>, visited |-> {}, expanded |-> <<>>]

\* an iteration that does not test the origin against the target
searchStepSkipsOrigin(graph, q) ==
  IF Len(q.stack) = 0 THEN [q EXCEPT !.status = "false"]
  ELSE
    LET currentUrl == q.stack[Len(q.stack)]
        popped == SubSeq(q.stack, 1, Len(q.stack) - 1)
    IN IF currentUrl = q.targetUrl /\ q.visited # {}
       THEN [q EXCEPT !.status = "true", !.stack = popped]
       ELSE IF currentUrl \notin q.visited
       THEN LET visited2 == q.visited \cup {currentUrl}
                dependencies == IF MapHas(graph, currentUrl)
                                THEN graph[currentUrl] ELSE <<>>
                pushed == SelectSeq(dependencies, LAMBDA d : d \notin visited2)
            IN [q EXCEPT !.stack = popped \o pushed, !.visited = visited2,
                         !.expanded = Append(@, currentUrl)]
       ELSE [q EXCEPT !.stack = popped]

\* an iteration without the visited set
searchStepNoVisited(graph, q) ==
  IF Len(q.stack) = 0 THEN [q EXCEPT !.status = "false"]
  ELSE
    LET currentUrl == q.stack[Len(q.stack)]
        popped == SubSeq(q.stack, 1, Len(q.stack) - 1)
    IN IF currentUrl = q.targetUrl
       THEN [q EXCEPT !.status = "true", !.stack = popped]
       ELSE LET dependencies == IF MapHas(graph, currentUrl)
                                THEN graph[currentUrl] ELSE <<>>
            IN [q EXCEPT !.stack = popped \o dependencies,
                         !.expanded = Append(@, currentUrl)]

\* lines 280-301
searchStep(graph, q) ==
  IF Len(q.stack) = 0 THEN [q EXCEPT !.status = "false"]
  ELSE
    LET currentUrl == q.stack[Len(q.stack)]
        popped == SubSeq(q.stack, 1, Len(q.stack) - 1)
    IN IF currentUrl = q.targetUrl
       THEN [q EXCEPT !.status = "true", !.stack = popped]
       ELSE IF currentUrl \notin q.visited
       THEN LET visited2 == q.visited \cup {currentUrl}
                dependencies == IF MapHas(graph, currentUrl)
                                THEN graph[currentUrl] ELSE <<>>
                pushed == SelectSeq(dependencies, LAMBDA d : d \notin visited2)
            IN [q EXCEPT !.stack = popped \o pushed, !.visited = visited2,
                         !.expanded = Append(@, currentUrl)]
       ELSE [q EXCEPT !.stack = popped]

\* the function runs to its end without a suspension: the edge set changes
\* only between two calls, when the locals of the last call are gone
AddDependency(originUrl, depUrl) ==
  /\ search.status # "running"
  /\ pendingModuleDependencyGraph' =
       addPendingModuleDependency(pendingModuleDependencyGraph, originUrl, depUrl)
  /\ search' = NoSearch
  /\ UNCHANGED <<mods, pendingModules, importErrors, insts, hostCalls, frozen,
                 bodyRuns, transformCalls, reports, imports, thrown,
                 nativeImports, heap, interop>>

\* pendingModuleDependencyGraph.delete(url), line 259
DeleteDependencies(url) ==
  /\ search.status # "running"
  /\ MapHas(pendingModuleDependencyGraph, url)
  /\ pendingModuleDependencyGraph' = MapDelete(pendingModuleDependencyGraph, url)
  /\ search' = NoSearch
  /\ UNCHANGED <<mods, pendingModules, importErrors, insts, hostCalls, frozen,
                 bodyRuns, transformCalls, reports, imports, thrown,
                 nativeImports, heap, interop>>

StartSearch(originUrl, targetUrl) ==
  /\ search.status # "running"
  /\ search' = NewSearch(originUrl, targetUrl)
  /\ UNCHANGED <<mods, pendingModules, pendingModuleDependencyGraph,
                 importErrors, insts, hostCalls, frozen, bodyRuns,
                 transformCalls, reports, imports, thrown, nativeImports,
                 heap, interop>>

SearchStep ==
  /\ search.status = "running"
  /\ search' = searchStep(pendingModuleDependencyGraph, search)
  /\ UNCHANGED <<mods, pendingModules, pendingModuleDependencyGraph,
                 importErrors, insts, hostCalls, frozen, bodyRuns,
                 transformCalls, reports, imports, thrown, nativeImports,
                 heap, interop>>

NextTracker ==
  \/ \E o, d \in Urls : AddDependency(o, d)
  \/ \E u \in Urls : DeleteDependencies(u)
  \/ \E o, t \in Urls : StartSearch(o, t)
  \/ SearchStep

\* a started call runs on: its iterations are weakly fair
SpecTracker == Init /\ [][NextTracker]_vars /\ WF_vars(SearchStep)

\* ------------------------------------------------------------------ claims
InFlight(i) == insts[i].state = "pending"

\* the completion a host call receives: that of the promise it was given
Completion(h) ==
  [state |-> insts[hostCalls[h].promise].state,
   value |-> insts[hostCalls[h].promise].value]

RECURSIVE CanMove(_, _)
CanMove(i, fuel) ==
  LET w == insts[i].wait IN
  \/ insts[i].pc # "initModule"
  \/ w.kind # "promise"
  \/ ~InFlight(w.id)
  \/ fuel > 0 /\ CanMove(w.id, fuel - 1)

A == Url("a")

B == Url("b")

Finalized(url) == MapHas(mods, url) /\ mods[url].ssrModule \in frozen

\* a and b import each other statically, do nothing else, and do not throw
CycleAB ==
  /\ {x \in imports : x[1] \in {A, B}}
       = {<<A, B, "static">>, <<B, A, "static">>}
  /\ thrown \cap {A, B} = {}

AllSettled == \A i \in DOMAIN insts : ~InFlight(i)

NoWaitCycle == \A i \in DOMAIN insts : CanMove(i, Len(insts))

\* C3: with bodies that import statically only, in any graph (self-imports,
\* cycles of length two and three) and under any concurrent host loads, no
\* set of instantiations ever waits on itself, and every load settles.
C3_StaticLoadsSettle == []NoWaitCycle /\ []<>AllSettled

\* a cycle through all three modules was loaded by two overlapping host
\* loads, and everything has settled
C3_Witness ==
  /\ {<<Url("a"), Url("b"), "static">>, <<Url("b"), Url("c"), "static">>,
      <<Url("c"), Url("a"), "static">>} \subseteq imports
  /\ Len(hostCalls) = 2
  /\ ~hostCalls[1].alone
  /\ Len(insts) >= 3
  /\ AllSettled

\* the loads of url that did not fail before the body (line 95)
LoadsPastTransform(url) ==
  {i \in DOMAIN insts :
     /\ insts[i].url = url
     /\ ~InFlight(i)
     /\ ~(insts[i].value.type = "Error" /\ insts[i].value.kind = "load")}

\* C4: execution errors are cached.  Once the body of a module has thrown,
\* every load of it that settles is rejected, all with the identical value,
\* the body has run once, and the transform collaborator is not called again.
C4_ExecutionErrorCached ==
  /\ [](\A url \in thrown :
          /\ bodyRuns[url] = 1
          /\ \A i, j \in LoadsPastTransform(url) :
               /\ insts[i].state = "rejected"
               /\ insts[i].value = insts[j].value)
  /\ [][\A url \in thrown : transformCalls'[url] = transformCalls[url]]_vars

\* the modules url reaches through the static imports made so far
RECURSIVE StaticClosure(_, _)
StaticClosure(set, fuel) ==
  LET more == set \cup {x[2] : x \in {y \in imports :
                                        y[1] \in set /\ y[3] = "static"}}
  IN IF fuel = 0 \/ more = set THEN set ELSE StaticClosure(more, fuel - 1)

StaticReach(url) ==
  StaticClosure({x[2] : x \in {y \in imports : y[1] = url /\ y[3] = "static"}},
                Cardinality(Urls))

\* instantiation i is suspended in an awaited dynamic import of a module
\* that statically imports, directly or not, the module of i
DynamicCycleWait(i) ==
  /\ insts[i].pc = "initModule"
  /\ insts[i].wait.how = "await import"
  /\ insts[i].url \in StaticReach(insts[i].wait.dep)

DynamicCycleWaiting == \E i \in DOMAIN insts : DynamicCycleWait(i)

\* C5 as stated: a dynamic import of a module that statically imports the
\* importer eventually settles, also when the importer awaits it in its body.
C5_DynamicImportSettles == DynamicCycleWaiting ~> ~DynamicCycleWaiting

NoAwaitedDynamic == \A x \in imports : x[3] # "await import"

EdgesAreStatic ==
  \A url \in DOMAIN pendingModuleDependencyGraph :
    \A dep \in Elems(pendingModuleDependencyGraph[url]) :
      <<url, dep, "static">> \in imports

DynamicWaitsOnLoad ==
  \A i \in DOMAIN insts :
    insts[i].wait.how = "await import"
      => /\ insts[i].wait.kind = "promise"
         /\ insts[insts[i].wait.id].url = insts[i].wait.dep

\* i awaits a dynamic import of the module of j, which awaits its static
\* import of the module of i
DynamicDeadlock ==
  \E i, j \in DOMAIN insts :
    /\ InFlight(i) /\ InFlight(j)
    /\ insts[i].wait.how = "await import" /\ insts[i].wait.id = j
    /\ insts[j].wait.how = "static" /\ insts[j].wait.kind = "promise"
    /\ insts[j].wait.id = i

\* C5, amended: a dynamic import registers no edge and always goes to the
\* Single-Flight Loader; it settles when no body awaits its dynamic imports;
\* when a body awaits a dynamic import of a module that is suspended in a
\* static import of that body's module, the two stay suspended.
C5_DynamicImportIsFreshLoad ==
  /\ [](EdgesAreStatic /\ DynamicWaitsOnLoad)
  /\ ([]NoAwaitedDynamic) => []<>AllSettled
  /\ [][DynamicDeadlock => DynamicDeadlock']_vars

\* b statically imported a while a, which had imported b dynamically without
\* awaiting it, was in flight; both have settled
C5_Witness ==
  /\ {<<A, B, "import">>, <<B, A, "static">>} \subseteq imports
  /\ NoAwaitedDynamic
  /\ AllSettled
  /\ Finalized(A) /\ Finalized(B)

\* C6: immutable after return.  Whatever a load fulfils with, on every path,
\* is a frozen exports object of a module whose body returned: the body did
\* not throw and is not still executing.
C6_ImmutableAfterReturn ==
  \A i \in DOMAIN insts :
    insts[i].state = "fulfilled"
      => /\ insts[i].value \in frozen
         /\ insts[i].url \notin thrown
         /\ \A j \in DOMAIN insts :
              insts[j].url = insts[i].url => insts[j].pc # "initModule"

\* the short-circuit of a cycle hands over the object the record holds
HandedIsRecorded ==
  \A i \in DOMAIN insts :
    insts[i].wait.kind = "value"
      => /\ MapHas(mods, insts[i].wait.dep)
         /\ insts[i].wait.value = mods[insts[i].wait.dep].ssrModule

FulfilledIsRecorded ==
  \A i \in DOMAIN insts :
    insts[i].state = "fulfilled" => insts[i].value = mods[insts[i].url].ssrModule

AssignedOnce ==
  \A u \in DOMAIN mods :
    Truthy(mods[u].ssrModule) => mods'[u].ssrModule = mods[u].ssrModule

\* C7: exports identity is stable.  The object a circular importer is handed
\* before the module finished is the one the record holds, a load fulfils
\* with the one the record holds, and the record's object, once assigned, is
\* never replaced.
C7_ExportsIdentityStable ==
  /\ [](HandedIsRecorded /\ FulfilledIsRecorded)
  /\ [][AssignedOnce]_vars

\* b was handed the exports of a while the body of a was suspended in its
\* import of b, and the load of b has fulfilled with b's recorded object
C7_Witness ==
  \E i, j \in DOMAIN insts :
    /\ insts[i].url = A /\ insts[i].pc = "initModule" /\ InFlight(i)
    /\ insts[i].wait.kind = "promise" /\ insts[i].wait.id = j
    /\ insts[j].url = B /\ insts[j].state = "fulfilled"
    /\ <<B, A, "static">> \in imports
    /\ insts[j].value = mods[B].ssrModule
    /\ mods[A].ssrModule = ModuleObject(A, 1)

\* C8: no visibly incomplete result.  When a host load fulfils, the module
\* and every module it reaches through static imports are finalized.  Stated
\* for the behaviours in which no body has thrown.
C8_NoIncompleteResult ==
  \A h \in DOMAIN hostCalls :
    (Completion(h).state = "fulfilled" /\ thrown = {})
      => \A u \in {hostCalls[h].url} \cup StaticReach(hostCalls[h].url) :
           Finalized(u)

IsLoadError(v) == v.type = "Error" /\ v.kind = "load"

\* C9: resolution and transform failures are never cached.  After a load was
\* rejected with the error of an unavailable transform, of the module itself
\* or of a module it imports, no record holds that error, and the record of
\* the loaded module holds none.
C9_FailuresNeverCached ==
  /\ \A u \in DOMAIN mods : ~IsLoadError(mods[u].ssrError)
  /\ \A i \in DOMAIN insts :
       (insts[i].state = "rejected" /\ IsLoadError(insts[i].value))
         => ~Truthy(mods[insts[i].url].ssrError)

NormalizedKeys ==
  /\ DOMAIN pendingModules \subseteq Urls
  /\ DOMAIN mods \subseteq Urls
  /\ \A url \in DOMAIN pendingModuleDependencyGraph :
       /\ url \in Urls
       /\ Elems(pendingModuleDependencyGraph[url]) \subseteq Urls
  /\ \A i \in DOMAIN insts : insts[i].url \in Urls

\* C10: deduplication is keyed on the normalized identifier.  Concurrent host
\* loads whose spellings unwrapId maps to one identifier share one pending
\* promise and one completion, one instantiation of it is in flight, and the
\* edges and cycle checks of static imports spelled with the prefix use the
\* normalized keys: no cycle of such imports makes instantiations wait on
\* one another.
C10_DedupOnNormalizedId ==
  /\ NormalizedKeys
  /\ \A i, j \in DOMAIN insts :
       (i # j /\ insts[i].url = insts[j].url) => ~(InFlight(i) /\ InFlight(j))
  /\ \A h \in DOMAIN hostCalls : \A g \in hostCalls[h].concurrent :
       /\ hostCalls[g].promise = hostCalls[h].promise
       /\ Completion(g) = Completion(h)
  /\ NoWaitCycle

\* two overlapping host loads of a, spelled differently, shared one promise,
\* which fulfilled after the cycle a <-> b
C10_Witness ==
  /\ Len(hostCalls) = 2
  /\ hostCalls[1].raw # hostCalls[2].raw
  /\ hostCalls[1].url = A /\ hostCalls[2].url = A
  /\ hostCalls[2].concurrent = {1}
  /\ hostCalls[1].promise = hostCalls[2].promise
  /\ Completion(2).state = "fulfilled"
  /\ {<<A, B, "static">>, <<B, A, "static">>} \subseteq imports
  /\ bodyRuns[A] = 1

\* a load in flight has the pending entry of its module, from the step
\* that accepted it on
EntryWhileInFlight ==
  \A i \in DOMAIN insts :
    InFlight(i) => /\ MapHas(pendingModules, insts[i].url)
                   /\ pendingModules[insts[i].url] = i

EntryIsOwnLoad ==
  \A u \in DOMAIN pendingModules : insts[pendingModules[u]].url = u

EntrySettled(u) ==
  MapHas(pendingModules, u) /\ ~InFlight(pendingModules[u])

\* C11: lifecycle of the Pending Load Table.  The entry of a load exists from
\* the step that accepted the load until the load settles; after the load
\* settled, fulfilled or rejected, the entry is removed; once all loads have
\* settled for good the table is empty.
C11_PendingEntryLifecycle ==
  /\ [](EntryWhileInFlight /\ EntryIsOwnLoad)
  /\ \A u \in Urls : EntrySettled(u) ~> ~MapHas(pendingModules, u)
  /\ (<>[]AllSettled) => <>[](pendingModules = EmptyMap)

\* a fulfilled and a rejected load have both lost their entry
C11_Witness ==
  /\ pendingModules = EmptyMap
  /\ \E i, j \in DOMAIN insts :
       insts[i].state = "fulfilled" /\ insts[j].state = "rejected"

\* what A exposes is what B has now
ReexportIsLive ==
  \A key \in DOMAIN heap.A :
    /\ key \notin NotReexported
    /\ key \in DOMAIN heap.B
    /\ Get(heap, "A", key) = Get(heap, "B", key)

ReexportsAllKeys ==
  heap'.A # heap.A
    => DOMAIN heap'.A = (DOMAIN heap.A \cup DOMAIN heap.B) \ NotReexported

\* C12: live re-export.  After A re-exported B, A exposes the keys B had,
\* except default and __esModule, and a read of such a key through A gives
\* the value B has now, whatever B assigned after the re-export.
C12_LiveReexport == [](ReexportIsLive) /\ [][ReexportsAllKeys]_vars

\* B had a and b and no default when A re-exported it; since then B gave a
\* another value, and A.a reads it
C12_Witness ==
  /\ DOMAIN heap.snapshot = {"a", "b"}
  /\ DOMAIN heap.A = {"a", "b"}
  /\ Get(heap, "B", "a") # heap.snapshot["a"]
  /\ Get(heap, "A", "a") = Get(heap, "B", "a")
  /\ Get(heap, "A", "b") = heap.snapshot["b"]

\* C13: proxyESM of a primitive.  For every value that is neither an object
\* nor a function, null and the other falsy values included, the result is a
\* plain object whose only enumerable key is default, holding that value.
C13_ProxyOfPrimitive ==
  (interop.called /\ interop.input.type \notin {"object", "function"})
    => /\ interop.result.type = "object"
       /\ DOMAIN interop.result.props = {"default"}
       /\ interop.result.props["default"] = interop.input

C13_Witness ==
  /\ interop.called
  /\ interop.input = Null
  /\ interop.result = Obj("default" :> Null)

IsNotFound(v) == v.type = "Error" /\ v.kind = "ERR_MODULE_NOT_FOUND"

\* C14: an external specifier that is no built-in and that the resolver does
\* not find makes nodeImport throw the module-not-found error, which carries
\* the specifier and the importer, without a native import of it; every load
\* of the importing module that gets as far as its record's error or its
\* body is rejected with that error.
C14_UnresolvedExternalFails ==
  /\ \A url \in nativeImports : \A id \in MissingIds :
       url # id /\ url # <<"file:">> \o id
  /\ \A x \in imports : \A i \in LoadsPastTransform(x[1]) :
       x[2] \in MissingIds
         => /\ insts[i].state = "rejected"
            /\ IsNotFound(insts[i].value)
            /\ insts[i].value.id = x[2]
            /\ insts[i].value.url = x[1]
  /\ \A i \in DOMAIN insts :
       (insts[i].wait.kind = "error" /\ insts[i].wait.dep \in MissingIds)
         => /\ IsNotFound(insts[i].wait.value)
            /\ insts[i].wait.value.id = insts[i].wait.dep
            /\ insts[i].wait.value.url = insts[i].url

\* a imported the package that is not found and its load was rejected with
\* the error naming both; another module imported a package that was found
C14_Witness ==
  /\ \E i \in DOMAIN insts :
       /\ insts[i].url = A
       /\ insts[i].state = "rejected"
       /\ insts[i].value = ModuleNotFoundError(<<"missing">>, A, 0)
  /\ <<A, <<"missing">>, "static">> \in imports
  /\ <<"file:", "pkg">> \in nativeImports

\* C15: every failed load is reported.  For each load that was rejected the
\* Reporter was called with the identifier of the module and the value the
\* load was rejected with, and with the specifier recorded for that value, if
\* one was recorded.
C15_EveryFailureReported ==
  \A i \in DOMAIN insts :
    insts[i].state = "rejected"
      => \E r \in reports :
           /\ r.url = insts[i].url
           /\ r.error = insts[i].value
           /\ MapHas(importErrors, r.error) => r.importee = importErrors[r.error]

\* loads of one module, i accepted before j
Earlier(i, j) == i < j /\ insts[i].url = insts[j].url

LaterLoadsReturnSame ==
  \A i, j \in DOMAIN insts :
    (Earlier(i, j) /\ insts[i].state = "fulfilled" /\ ~InFlight(j))
      => /\ insts[j].state = "fulfilled"
         /\ insts[j].value = insts[i].value

BodyRunsOnce == \A u \in Urls : bodyRuns[u] <= 1

\* after a load of u fulfilled, no transform of u and no run of its body
NoWorkAfterFulfil ==
  \A i \in DOMAIN insts :
    insts[i].state = "fulfilled"
      => /\ transformCalls'[insts[i].url] = transformCalls[insts[i].url]
         /\ bodyRuns'[insts[i].url] = bodyRuns[insts[i].url]

\* C16: success caching.  After a load of a module has fulfilled, every later
\* load of it fulfils with the same exports object, the transform collaborator
\* is not invoked for it and its body is not executed again; a body is executed
\* at most once per Module Record.
C16_SuccessCached ==
  /\ [](LaterLoadsReturnSame /\ BodyRunsOnce)
  /\ [][NoWorkAfterFulfil]_vars

\* two loads of a, the second accepted after the first fulfilled and its
\* entry was removed, both fulfilled with the frozen exports of one body run
C16_Witness ==
  /\ Len(insts) = 2
  /\ insts[1].url = A /\ insts[2].url = A
  /\ insts[1].state = "fulfilled" /\ insts[2].state = "fulfilled"
  /\ insts[1].value = insts[2].value
  /\ Finalized(A)
  /\ bodyRuns[A] = 1 /\ transformCalls[A] = 1

\* the identifiers reached from a set through the stored edges
RECURSIVE Closure(_, _)
Closure(graph, set) ==
  LET more == set \cup UNION {Elems(graph[u]) : u \in set \cap DOMAIN graph}
  IN IF more = set THEN set ELSE Closure(graph, more)

Reaches(graph, originUrl, targetUrl) == targetUrl \in Closure(graph, {originUrl})

SearchDone == search.status \in {"true", "false"}

\* C17: checkModuleDependencyExists(origin, target) is true exactly when
\* target is in the reflexive-transitive closure of origin under the stored
\* edges: both the loop, run to its end, and its value as the loader uses it.
C17_CheckIsReachability ==
  /\ SearchDone
       => ((search.status = "true")
             <=> Reaches(pendingModuleDependencyGraph, search.originUrl,
                         search.targetUrl))
  /\ \A o, t \in Urls :
       checkModuleDependencyExists(pendingModuleDependencyGraph, o, t)
         <=> Reaches(pendingModuleDependencyGraph, o, t)

\* over the cycle a -> b -> c -> a with a self-loop on a, the search from b
\* found a, by way of c
C17_Witness ==
  /\ search.status = "true"
  /\ search.originUrl = B /\ search.targetUrl = A
  /\ search.expanded = <<B, Url("c")>>
  /\ pendingModuleDependencyGraph =
       (A :> <<A, B>> @@ B :> <<Url("c")>> @@ Url("c") :> <<A>>)

NoDuplicates(seq) ==
  \A k, l \in 1..Len(seq) : k # l => seq[k] # seq[l]

\* C18: the search terminates on every edge set, with cycles and self-loops:
\* each identifier is expanded at most once, the visited set being what
\* prevents a second expansion, and a started search ends.
C18_SearchTerminates ==
  /\ [](NoDuplicates(search.expanded) /\ Elems(search.expanded) = search.visited)
  /\ (search.status = "running") ~> SearchDone

\* a search for c that ended without finding it, over a self-loop on a and
\* the cycle a <-> b, having expanded a and b once each
C18_Witness ==
  /\ search.status = "false"
  /\ search.targetUrl = Url("c")
  /\ search.expanded = <<A, B>>
  /\ pendingModuleDependencyGraph = (A :> <<A, B>> @@ B :> <<A, B>>)

IsCycleError(v) == v.type = "Error" /\ v.kind = "cycle"

NoCycleError ==
  /\ \A i \in DOMAIN insts :
       ~IsCycleError(insts[i].value) /\ ~IsCycleError(insts[i].wait.value)
  /\ \A u \in DOMAIN mods : ~IsCycleError(mods[u].ssrError)
  /\ \A e \in DOMAIN importErrors : ~IsCycleError(e)

\* a module has edges, or a running body, only with exports on its record
EdgesAfterExports ==
  /\ \A u \in DOMAIN pendingModuleDependencyGraph :
       MapHas(mods, u) /\ Truthy(mods[u].ssrModule)
  /\ \A i \in DOMAIN insts :
       insts[i].pc = "initModule" => Truthy(mods[insts[i].url].ssrModule)

\* C19: the uninitialized-cycle error is unreachable.  No import produces it,
\* no load is rejected with it and no record stores it, because a module
\* registers edges only after its exports container was attached.
C19_NoUninitializedCycle == NoCycleError /\ EdgesAfterExports

\* c, importing a, found that a reaches c through b, and got the exports
\* a's record holds
C19_Witness ==
  \E i \in DOMAIN insts :
    /\ insts[i].url = Url("c")
    /\ insts[i].wait.kind = "value" /\ insts[i].wait.dep = A
    /\ insts[i].wait.value = mods[A].ssrModule
    /\ Truthy(mods[A].ssrModule)
    /\ pendingModuleDependencyGraph =
         (A :> <<B>> @@ B :> <<Url("c")>> @@ Url("c") :> <<A>>)

\* instantiation i makes a static import of a module of the project in this
\* step
StaticImportStep(i) ==
  /\ insts'[i].nimports = insts[i].nimports + 1
  /\ insts'[i].wait.how = "static"
  /\ insts'[i].wait.dep \in Urls

ShortCircuitOrLoad ==
  \A i \in DOMAIN insts :
    StaticImportStep(i) =>
      LET url == insts[i].url
          w == insts'[i].wait
          cycle == Reaches(pendingModuleDependencyGraph', w.dep, url)
      IN /\ MapHas(pendingModuleDependencyGraph', url)
         /\ w.dep \in Elems(pendingModuleDependencyGraph'[url])
         /\ cycle => /\ w.kind = "value"
                     /\ w.value = mods'[w.dep].ssrModule
                     /\ Len(insts') = Len(insts)
                     /\ pendingModules' = pendingModules
         /\ ~cycle => /\ w.kind = "promise"
                      /\ MapHas(pendingModules', w.dep)
                      /\ pendingModules'[w.dep] = w.id
                      /\ insts'[w.id].url = w.dep

\* C20: cycle short-circuit.  A static import of dep by url registers the
\* edge url -> dep; when dep then reaches url through registered edges the
\* import gives the exports object of dep's record and the Single-Flight
\* Loader is not called (no instantiation, no pending entry); when it does
\* not, the import waits on the promise of ssrLoadModule(dep).
C20_CycleShortCircuit == [][ShortCircuitOrLoad]_vars

\* a waits on the load of b, and b's import of a was answered with a's
\* exports
C20_Witness ==
  \E i, j \in DOMAIN insts :
    /\ insts[i].wait.how = "static" /\ insts[i].wait.kind = "promise"
    /\ insts[i].wait.id = j
    /\ insts[j].wait.how = "static" /\ insts[j].wait.kind = "value"
    /\ insts[j].wait.dep = insts[i].url
    /\ insts[j].wait.value = ModuleObject(insts[i].url, 1)

\* the imports made in this step, when all of them are dynamic
NewImports == imports' \ imports

DynamicOnlyStep ==
  NewImports # {} /\ \A x \in NewImports : x[3] # "static"

NoEdgeAdded ==
  \A u \in DOMAIN pendingModuleDependencyGraph' :
    /\ MapHas(pendingModuleDependencyGraph, u)
    /\ pendingModuleDependencyGraph'[u] = pendingModuleDependencyGraph[u]

GoesToLoader == \A x \in NewImports : MapHas(pendingModules', x[2])

\* C21: a dynamic import of a module of the project adds no edge to the
\* Dependency Edge Set and is never answered by the cycle short-circuit: the
\* request goes to the Single-Flight Loader and the body, when it awaits,
\* waits on the load's promise, also when the target depends on the importer.
C21_DynamicImportNoEdge ==
  /\ [](DynamicWaitsOnLoad /\ EdgesAreStatic)
  /\ [][DynamicOnlyStep => (NoEdgeAdded /\ GoesToLoader)]_vars

\* a awaits its dynamic import of a module that reaches a through the
\* registered edges: a static import would have been short-circuited
C21_Witness ==
  \E i \in DOMAIN insts :
    /\ insts[i].url = A
    /\ insts[i].wait.how = "await import"
    /\ insts[i].wait.kind = "promise"
    /\ insts[i].wait.dep # A
    /\ Reaches(pendingModuleDependencyGraph, insts[i].wait.dep, A)
    /\ ~MapHas(pendingModuleDependencyGraph, A)

\* every module suspended in a static import has the edge of that import
WaitingEdgesRegistered ==
  \A i \in DOMAIN insts :
    (InFlight(i) /\ insts[i].wait.how = "static" /\ insts[i].wait.dep \in Urls)
      => /\ MapHas(pendingModuleDependencyGraph, insts[i].url)
         /\ insts[i].wait.dep \in Elems(pendingModuleDependencyGraph[insts[i].url])

\* the edges of a module in flight stay
EdgesOnlyGrow ==
  \A i \in DOMAIN insts :
    (InFlight(i) /\ insts'[i].state = "pending"
       /\ MapHas(pendingModuleDependencyGraph, insts[i].url))
      => /\ MapHas(pendingModuleDependencyGraph', insts[i].url)
         /\ Elems(pendingModuleDependencyGraph[insts[i].url])
              \subseteq Elems(pendingModuleDependencyGraph'[insts[i].url])

\* the step that starts or joins the load of dep has registered url -> dep,
\* and starts no other load
EdgeWithLoad ==
  \A i \in DOMAIN insts :
    StaticImportStep(i)
      => /\ MapHas(pendingModuleDependencyGraph', insts[i].url)
         /\ insts'[i].wait.dep
              \in Elems(pendingModuleDependencyGraph'[insts[i].url])
         /\ \A j \in DOMAIN insts' \ DOMAIN insts :
              insts'[j].url = insts'[i].wait.dep

\* C22: edge before await.  The step of url that starts or awaits the load of
\* dep has registered the edge url -> dep; while the instantiation of url is
\* in flight its edges are not removed; so in every state each module that
\* is suspended in a static import has the edge of that import in the set.
C22_EdgeBeforeAwait ==
  /\ []WaitingEdgesRegistered
  /\ [][EdgesOnlyGrow /\ EdgeWithLoad]_vars

\* a, after its import of b, is suspended in its import of c, with both edges
C22_Witness ==
  \E i \in DOMAIN insts :
    /\ insts[i].url = A /\ InFlight(i)
    /\ insts[i].nimports = 2
    /\ insts[i].wait.kind = "promise" /\ insts[i].wait.dep = Url("c")
    /\ pendingModuleDependencyGraph[A] = <<B, Url("c")>>

\* a key of the edge set is a module whose body is executing
EdgeKeysExecuting ==
  \A u \in DOMAIN pendingModuleDependencyGraph :
    /\ MapHas(pendingModules, u)
    /\ InFlight(pendingModules[u])
    /\ insts[pendingModules[u]].url = u
    /\ insts[pendingModules[u]].pc = "initModule"
    /\ MapHas(mods, u)
    /\ Truthy(mods[u].ssrModule)
    /\ mods[u].ssrModule = insts[pendingModules[u]].exports

EdgesDeletedAtSettle ==
  \A i \in DOMAIN insts :
    (InFlight(i) /\ insts'[i].state # "pending")
      => ~MapHas(pendingModuleDependencyGraph', insts[i].url)

\* C23: lifecycle of the Dependency Edge Set.  Every key is a module whose
\* body is executing, with a pending entry and its exports object attached;
\* the entry of a module is deleted in the step in which its instantiation
\* settles, fulfilled or rejected; when all loads have settled the set is
\* empty.
C23_EdgeSetLifecycle ==
  /\ [](EdgeKeysExecuting
        /\ (AllSettled => pendingModuleDependencyGraph = EmptyMap))
  /\ [][EdgesDeletedAtSettle]_vars

\* a module that imported statically and returned, another that imported
\* statically and failed; all loads have settled and the set is empty
C23_Witness ==
  /\ AllSettled
  /\ pendingModuleDependencyGraph = EmptyMap
  /\ \E x, y \in imports :
       /\ x[3] = "static" /\ y[3] = "static"
       /\ Finalized(x[1])
       /\ y[1] \in thrown

\* the step in which the body of instantiation i resumes from a static
\* import whose load was rejected
StaticImportFailed(i) ==
  /\ InFlight(i)
  /\ insts[i].pc = "initModule"
  /\ insts[i].wait.kind = "promise"
  /\ insts[i].wait.how = "static"
  /\ insts[insts[i].wait.id].state = "rejected"
  /\ insts'[i] # insts[i]

SameErrorUp(i) ==
  LET e == insts[insts[i].wait.id].value
  IN /\ insts'[i].state = "rejected"
     /\ insts'[i].value = e
     /\ mods'[insts[i].url].ssrError = e

ReportNamesImport(i) ==
  \E r \in reports' :
    /\ r.url = insts[i].url
    /\ r.error = insts[insts[i].wait.id].value
    /\ r.importee \in {insts[i].wait.dep, unwrapId(insts[i].wait.dep)}

\* C24: when M awaits a static import of D and the load of D is rejected
\* with e, the body of M fails with e, e becomes M's ssrError, the load of M
\* is rejected with e, and the report made for M names D as the import that
\* failed.
C24_FailurePropagates ==
  [][\A i \in DOMAIN insts :
       StaticImportFailed(i) => (SameErrorUp(i) /\ ReportNamesImport(i))]_vars

\* the part about the error alone, for errors that are Error objects
C24_SameErrorForErrors ==
  [][\A i \in DOMAIN insts :
       (StaticImportFailed(i) /\ ~IsNullish(insts[insts[i].wait.id].value))
         => SameErrorUp(i)]_vars

\* the part about the report alone, for errors that are Error objects
C24_ReportNamesImport ==
  [][\A i \in DOMAIN insts :
       (StaticImportFailed(i) /\ insts[insts[i].wait.id].value \in
          {ErrorObject("body", u, 1) : u \in Urls})
         => ReportNamesImport(i)]_vars

\* the step in which instantiation i learns that its transform is unavailable
TransformFails(i) ==
  /\ insts[i].pc = "transformRequest"
  /\ insts'[i] # insts[i]
  /\ ~Truthy(mods'[insts[i].url].ssrTransformResult)

RecordLeftUnset(i) ==
  LET url == insts[i].url
  IN /\ insts'[i].state = "rejected"
     /\ IsLoadError(insts'[i].value)
     /\ insts'[i].exports = Undefined
     /\ mods' = mods
     /\ ~Truthy(mods'[url].ssrModule)
     /\ ~Truthy(mods'[url].ssrError)
     /\ pendingModuleDependencyGraph' = pendingModuleDependencyGraph
     /\ ~MapHas(pendingModuleDependencyGraph', url)
     /\ bodyRuns' = bodyRuns /\ frozen' = frozen /\ reports' = reports

\* instantiation j starts after a load of the same module failed at its
\* transform, and no load of it got a transform result in between
StartsAfterLoadError(j) ==
  /\ insts[j].pc = "ensureEntry"
  /\ insts'[j] # insts[j]
  /\ bodyRuns[insts[j].url] = 0
  /\ \E i \in DOMAIN insts :
       /\ insts[i].url = insts[j].url
       /\ insts[i].state = "rejected" /\ IsLoadError(insts[i].value)
       /\ insts[i].value.url = insts[i].url

TransformsAgain(j) ==
  /\ insts'[j].pc = "transformRequest"
  /\ insts'[j].state = "pending"
  /\ transformCalls'[insts[j].url] = transformCalls[insts[j].url] + 1

\* C25: when the transform of the loaded module is unavailable, the load is
\* rejected before an exports object exists: the record keeps ssrModule and
\* ssrError unset, no edge is registered for it, and a later load of the
\* same module calls the transform collaborator again.
C25_TransformUnavailable ==
  [][\A i \in DOMAIN insts :
       /\ TransformFails(i) => RecordLeftUnset(i)
       /\ StartsAfterLoadError(i) => TransformsAgain(i)]_vars

\* two loads of /a, each rejected by its own call of the transform
C25_Witness ==
  \E i, j \in DOMAIN insts :
    /\ insts[i].url = A /\ insts[j].url = A
    /\ insts[i].state = "rejected" /\ insts[i].value = ErrorObject("load", A, 1)
    /\ insts[j].state = "rejected" /\ insts[j].value = ErrorObject("load", A, 2)
    /\ transformCalls[A] = 2
    /\ ~Truthy(mods[A].ssrModule) /\ ~Truthy(mods[A].ssrError)

\* the step in which the body of instantiation i imports a package
ExternalImportStep(i) ==
  /\ InFlight(i)
  /\ insts'[i].wait # insts[i].wait
  /\ insts'[i].wait.dep \in ExternalIds

OnlyNodeImport(i) ==
  /\ pendingModules' = pendingModules
  /\ pendingModuleDependencyGraph' = pendingModuleDependencyGraph
  /\ Len(insts') = Len(insts)
  /\ insts'[i].wait.kind \in {"value", "error"}
  /\ LET dep == insts'[i].wait.dep IN
     \/ dep \in MissingIds /\ nativeImports' = nativeImports
     \/ dep \in BuiltinIds /\ dep \in nativeImports'
     \/ dep \in ResolvableIds /\ (<<"file:">> \o dep) \in nativeImports'
  /\ insts'[i].wait.kind = "error" => ~IsCycleError(insts'[i].wait.value)

\* the tables of the loader know modules of the project only
TablesHoldUrlsOnly ==
  /\ DOMAIN pendingModules \subseteq Urls
  /\ DOMAIN pendingModuleDependencyGraph \subseteq Urls
  /\ \A u \in DOMAIN pendingModuleDependencyGraph :
       \A k \in DOMAIN pendingModuleDependencyGraph[u] :
         pendingModuleDependencyGraph[u][k] \in Urls
  /\ \A i \in DOMAIN insts : insts[i].url \in Urls

\* C26: an import of an external specifier (first character neither "." nor
\* "/") goes to nodeImport only: it adds no entry to pendingModules, no edge
\* to the edge set, starts no load and is not given to the cycle check,
\* whether the import is static or dynamic.
C26_ExternalsBypassLoader ==
  /\ []TablesHoldUrlsOnly
  /\ [][\A i \in DOMAIN insts : ExternalImportStep(i) => OnlyNodeImport(i)]_vars

\* one body waits on a static import of a package, another on a dynamic
\* import of a package; the edge set holds the edge of a third body
C26_Witness ==
  \E i, j \in DOMAIN insts :
    /\ InFlight(i) /\ insts[i].wait.how = "static"
    /\ insts[i].wait.dep \in ResolvableIds /\ insts[i].wait.kind = "value"
    /\ InFlight(j) /\ insts[j].wait.how = "await import"
    /\ insts[j].wait.dep \in MissingIds /\ insts[j].wait.kind = "error"
    /\ insts[j].wait.id = 0
    /\ pendingModuleDependencyGraph # EmptyMap

\* the default export of a non-primitive exports value, as the interop rule
\* states it
FirstCandidate(m) == IF HasProp(m, "default") THEN m.props["default"] ELSE m

CarriesMarker(c) == CanHaveProps(c) /\ HasProp(c, "__esModule")

Candidate(m) ==
  LET c == FirstCandidate(m) IN
  IF CarriesMarker(c) /\ HasProp(c, "default") THEN c.props["default"] ELSE c

WrapsObject == interop.called /\ CanHaveProps(interop.input)

\* C27: for an exports value m that is an object or a function, the default
\* export of proxyESM is m.default when m has a "default" key and m itself
\* otherwise, replaced by its own "default" value only when it carries
\* __esModule and has a "default" key, one level and no more; a read of
\* "default" on the wrapper yields this value.
C27_DefaultCandidate ==
  WrapsObject =>
    /\ interop.result.type = "Proxy"
    /\ interop.result.defaultExport = Candidate(interop.input)
    /\ interop.prop = "default" => interop.read = Candidate(interop.input)

\* marked modules nested twice: "default" reads the inner marked module, not
\* the number inside it
C27_Witness ==
  /\ interop.called
  /\ interop.input =
       Obj("default" :> Obj(Marked("default" :> Obj(Marked("default" :> Num(3))))))
  /\ interop.prop = "default"
  /\ interop.read = Obj(Marked("default" :> Num(3)))

\* C28: a read of a property p other than "default" on the wrapper of m
\* returns m's own value of p whenever p is present on m; the default
\* export is asked only when p is absent from m.
C28_OwnPropertyFirst ==
  (/\ WrapsObject
   /\ interop.prop \notin {"", "default"}
   /\ HasProp(interop.input, interop.prop))
    => interop.read = interop.input.props[interop.prop]

\* the part that holds: p is present on the object the Proxy wraps with a
\* value other than undefined and null
C28_TargetPropertyFirst ==
  (/\ WrapsObject
   /\ interop.prop \notin {"", "default"}
   /\ ~IsNullish(GetProp(interop.result.target, interop.prop)))
    => interop.read = interop.result.target.props[interop.prop]

====
